---- MODULE Spec2Model ----
(***************************************************************************)
(* Model of the two tool-call orchestrators of wizybot-api:                *)
(*   AiService.getPrompt        (src/src/ai/ai.service.ts)                 *)
(*   ProductsService.aiPrompt   (src/src/products/products.service.ts)     *)
(* One request is followed from the call of the method to its return.      *)
(* Every `await` of the source is a suspension point, hence an action      *)
(* boundary: an action models the code that runs from the resumption of    *)
(* one await up to the next await (or to the return).  The outcomes of the *)
(* external calls (chat completion, weather, population, CSV read,         *)
(* currency quote) are chosen by the environment.                          *)
(***************************************************************************)
EXTENDS Integers, Sequences, FiniteSets, TLC

VARIABLES
    pc,                 \* position of the request in the method body
    service,            \* "ai" (getPrompt) or "products" (aiPrompt)
    prompt,             \* the prompt argument, a string
    messages,           \* the local array `messages`
    firstResponse,      \* outcome of completion round 1
    toolName,           \* toolCall.function.name / functionName
    functionArgs,       \* JSON.parse(...arguments) (argument / functionArgs)
    weatherResponse,    \* value getWeather resolved to
    populationResponse, \* value getPopulation resolved to
    products,           \* value searchProduct resolved to
    converted,          \* value convertCurrencies resolved to
    secondResponse,     \* outcome of completion round 2
    result,             \* what the method returned (or threw)
    calls,              \* history: the external calls issued, in order
    settled,            \* history: how each tool handler invoked has settled
    reads,              \* history: indices of tool_calls the code has read
    requests,           \* concurrent requests: the locals of each call in flight
    process,            \* concurrent requests: the Node process, "running" or "exited"
    csvRows,            \* the rows the csv parser delivers to searchProduct
    upstream            \* history: what the HTTP upstream of each handler did

vars == <<pc, service, prompt, messages, firstResponse, toolName, functionArgs,
          weatherResponse, populationResponse, products, converted, secondResponse,
          result, calls, settled, reads, requests, process, csvRows, upstream>>

(***************************************************************************)
(* Bounds of the model.                                                    *)
(***************************************************************************)
\* longest tool_calls array a round-1 completion carries
MaxToolCalls == 2

(***************************************************************************)
(* Program constants.                                                      *)
(***************************************************************************)
\* Joi.string().min(10)
PromptMinLen == 10
\* Joi.string().max(512)
PromptMaxLen == 512

(***************************************************************************)
(* JavaScript values.  Every value is a record of the same shape so that   *)
(* values of different JS types can be compared: k is the JS type, s the   *)
(* string, n the number, f the own properties of an object as a sequence   *)
(* of <<key, value>> entries in insertion order.                           *)
(***************************************************************************)
JsUndef == [k |-> "undefined", s |-> "", n |-> 0, f |-> <<>>]
JsNull == [k |-> "null", s |-> "", n |-> 0, f |-> <<>>]
JsStr(str) == [k |-> "str", s |-> str, n |-> 0, f |-> <<>>]
\* a number; n holds it in hundredths (two decimal places, exactly)
JsNum(hundredths) == [k |-> "num", s |-> "", n |-> hundredths, f |-> <<>>]
JsInt(i) == JsNum(i * 100)
\* a number of four decimal places: kept in hundredths when that is exact,
\* else in ten-thousandths, marked by s = "e-4"
JsNumFine(tenThousandths) ==
    IF tenThousandths % 100 = 0 THEN JsNum(tenThousandths \div 100)
    ELSE [k |-> "num", s |-> "e-4", n |-> tenThousandths, f |-> <<>>]
JsNaN == [k |-> "nan", s |-> "", n |-> 0, f |-> <<>>]
JsBool(b) == [k |-> "bool", s |-> "", n |-> IF b THEN 1 ELSE 0, f |-> <<>>]
JsObj(fields) == [k |-> "obj", s |-> "", n |-> 0, f |-> fields]

\* v.key throws a TypeError when v is undefined or null
CanRead(v) == v.k \notin {"undefined", "null"}

\* v.key for a readable v: the last entry stored under key, else undefined
RECURSIVE Lookup(_, _)
Lookup(fields, key) ==
    IF fields = <<>> THEN JsUndef
    ELSE LET last == fields[Len(fields)]
         IN IF last[1] = key THEN last[2]
            ELSE Lookup(SubSeq(fields, 1, Len(fields) - 1), key)

Get(v, key) == IF v.k = "obj" THEN Lookup(v.f, key) ELSE JsUndef

\* decimal digits of a natural number
DigitChar(d) ==
    CASE d = 0 -> "0" [] d = 1 -> "1" [] d = 2 -> "2" [] d = 3 -> "3"
      [] d = 4 -> "4" [] d = 5 -> "5" [] d = 6 -> "6" [] d = 7 -> "7"
      [] d = 8 -> "8" [] OTHER -> "9"

RECURSIVE NatToStr(_)
NatToStr(num) ==
    IF num < 10 THEN DigitChar(num)
    ELSE NatToStr(num \div 10) \o DigitChar(num % 10)

\* a number in hundredths, printed without trailing zeros
NumToStr(h) ==
    LET whole == NatToStr(h \div 100)
        frac == h % 100
    IN IF frac = 0 THEN whole
       ELSE IF frac % 10 = 0 THEN whole \o "." \o DigitChar(frac \div 10)
       ELSE whole \o "." \o DigitChar(frac \div 10) \o DigitChar(frac % 10)

\* a number in ten-thousandths, printed without trailing zeros
FineToStr(t) ==
    LET frac == t % 10000
        first3 == DigitChar(frac \div 1000) \o DigitChar((frac \div 100) % 10)
                  \o DigitChar((frac \div 10) % 10)
    IN NatToStr(t \div 10000) \o "."
       \o (IF frac % 10 = 0 THEN first3 ELSE first3 \o DigitChar(frac % 10))

\* String(v), as a template literal `${v}` renders it
JsToStr(v) ==
    CASE v.k = "undefined" -> "undefined"
      [] v.k = "null" -> "null"
      [] v.k = "str" -> v.s
      [] v.k = "num" -> (IF v.s = "e-4" THEN FineToStr(v.n) ELSE NumToStr(v.n))
      [] v.k = "nan" -> "NaN"
      [] v.k = "bool" -> (IF v.n = 1 THEN "true" ELSE "false")
      [] OTHER -> "[object Object]"

\* truthiness of a value (if (v) ...)
Truthy(v) ==
    CASE v.k = "undefined" -> FALSE
      [] v.k = "null" -> FALSE
      [] v.k = "str" -> v.s # ""
      [] v.k = "num" -> v.n # 0
      [] v.k = "nan" -> FALSE
      [] v.k = "bool" -> v.n = 1
      [] OTHER -> TRUE

(***************************************************************************)
(* JSON.parse, on the text of the arguments: an optional run of blanks, a  *)
(* value, an optional run of blanks.  A value is null, a string literal    *)
(* (no escapes), a natural number, or an object whose members are such     *)
(* literals.  Anything else is a SyntaxError.                              *)
(***************************************************************************)
Quote == "\""

RECURSIVE SkipWs(_)
SkipWs(str) ==
    IF Len(str) > 0 /\ Head(str) = " " THEN SkipWs(Tail(str)) ELSE str

IsDigit(c) == c \in {"0", "1", "2", "3", "4", "5", "6", "7", "8", "9"}

DigitVal(c) ==
    CASE c = "0" -> 0 [] c = "1" -> 1 [] c = "2" -> 2 [] c = "3" -> 3
      [] c = "4" -> 4 [] c = "5" -> 5 [] c = "6" -> 6 [] c = "7" -> 7
      [] c = "8" -> 8 [] OTHER -> 9

ParseFail == [ok |-> FALSE, val |-> JsUndef, rest |-> ""]

\* the characters up to the closing quote; str starts after the opening one
RECURSIVE ParseStringBody(_, _)
ParseStringBody(str, acc) ==
    IF Len(str) = 0 THEN ParseFail
    ELSE IF Head(str) = Quote
         THEN [ok |-> TRUE, val |-> JsStr(acc), rest |-> Tail(str)]
         ELSE ParseStringBody(Tail(str), acc \o Head(str))

RECURSIVE ParseDigits(_, _)
ParseDigits(str, acc) ==
    IF Len(str) > 0 /\ IsDigit(Head(str))
    THEN ParseDigits(Tail(str), acc * 10 + DigitVal(Head(str)))
    ELSE [ok |-> TRUE, val |-> JsInt(acc), rest |-> str]

\* a number has no leading zero unless it is 0 itself
ParseNumber(str) ==
    IF Head(str) = "0"
    THEN IF Len(str) > 1 /\ IsDigit(Head(Tail(str))) THEN ParseFail
         ELSE [ok |-> TRUE, val |-> JsInt(0), rest |-> Tail(str)]
    ELSE ParseDigits(str, 0)

ParseLiteral(str) ==
    IF Len(str) = 0 THEN ParseFail
    ELSE IF Head(str) = Quote THEN ParseStringBody(Tail(str), "")
    ELSE IF IsDigit(Head(str)) THEN ParseNumber(str)
    ELSE IF Len(str) >= 4 /\ SubSeq(str, 1, 4) = "null"
         THEN [ok |-> TRUE, val |-> JsNull, rest |-> SubSeq(str, 5, Len(str))]
    ELSE ParseFail

\* members of an object: "key" : literal, separated by commas, closed by }
RECURSIVE ParseMembers(_, _)
ParseMembers(str, acc) ==
    IF Len(str) = 0 \/ Head(str) # Quote THEN ParseFail
    ELSE LET key == ParseStringBody(Tail(str), "")
             afterKey == SkipWs(key.rest)
         IN IF ~key.ok \/ Len(afterKey) = 0 \/ Head(afterKey) # ":" THEN ParseFail
            ELSE LET lit == ParseLiteral(SkipWs(Tail(afterKey)))
                     afterLit == SkipWs(lit.rest)
                     acc2 == Append(acc, <<key.val.s, lit.val>>)
                 IN IF ~lit.ok \/ Len(afterLit) = 0 THEN ParseFail
                    ELSE IF Head(afterLit) = "}"
                         THEN [ok |-> TRUE, val |-> JsObj(acc2), rest |-> Tail(afterLit)]
                    ELSE IF Head(afterLit) = ","
                         THEN ParseMembers(SkipWs(Tail(afterLit)), acc2)
                    ELSE ParseFail

ParseValue(str) ==
    IF Len(str) = 0 THEN ParseFail
    ELSE IF Head(str) = "{"
         THEN LET inner == SkipWs(Tail(str))
              IN IF Len(inner) > 0 /\ Head(inner) = "}"
                 THEN [ok |-> TRUE, val |-> JsObj(<<>>), rest |-> Tail(inner)]
                 ELSE ParseMembers(inner, <<>>)
    ELSE ParseLiteral(str)

\* a parse that yields {} where JSON.parse throws
JSONParseLenient(text) ==
    LET v == ParseValue(SkipWs(text))
    IN IF v.ok /\ SkipWs(v.rest) = ""
       THEN [ok |-> TRUE, val |-> v.val]
       ELSE [ok |-> TRUE, val |-> JsObj(<<>>)]

\* JSON.parse(text): ok = FALSE stands for the SyntaxError it throws
JSONParse(text) ==
    LET v == ParseValue(SkipWs(text))
    IN IF v.ok /\ SkipWs(v.rest) = ""
       THEN [ok |-> TRUE, val |-> v.val]
       ELSE [ok |-> FALSE, val |-> JsUndef]

(***************************************************************************)
(* Values the methods return, and the history of external calls.           *)
(***************************************************************************)
\* { ok: true, response: content }
OkResponse(content) ==
    JsObj(<< <<"ok", JsBool(TRUE)>>, <<"response", content>> >>)

\* a catch block that hands on the message as it caught it
CatchErrorBare(message) ==
    JsObj(<< <<"ok", JsBool(FALSE)>>, <<"error", JsStr(message)>> >>)

\* a catch block that reports the failure as a success
CatchErrorOkTrue(message) ==
    JsObj(<< <<"ok", JsBool(TRUE)>>,
             <<"response", JsStr("Error in OpenAI API: " \o message)>> >>)

\* the catch block: { ok: false, error: `Error in OpenAI API: ${error.message}` }
CatchError(message) ==
    JsObj(<< <<"ok", JsBool(FALSE)>>,
             <<"error", JsStr("Error in OpenAI API: " \o message)>> >>)

Pending == [status |-> "pending", value |-> JsUndef, error |-> ""]
Returned(v) == [status |-> "returned", value |-> v, error |-> ""]
Threw(message) == [status |-> "threw", value |-> JsUndef, error |-> message]

\* an entry of the history: a chat completion request
CompletionCall(msgs, tools) ==
    [op |-> "completion", args |-> <<>>, messages |-> msgs, tools |-> tools]

\* an entry of the history: a tool handler invoked with args
HandlerCall(name, args) ==
    [op |-> name, args |-> args, messages |-> <<>>, tools |-> <<>>]

\* an entry of the history: handler name has settled; ok = FALSE when it
\* reported a failure (resolved to ok: false, threw, or rejected)
Settlement(name, ok) == [op |-> name, ok |-> ok]

NoCompletion == [kind |-> "none", errmsg |-> "", content |-> JsUndef,
                 hasToolCalls |-> FALSE, tool_calls |-> <<>>]

(***************************************************************************)
(* Prompt validation (getPromptSchema).                                    *)
(***************************************************************************)
\* a schema whose limits are exclusive
ValidPromptExclusive(p) == Len(p) > PromptMinLen /\ Len(p) < PromptMaxLen

\* Joi.string().min(10).max(512).required()
ValidPrompt(p) == Len(p) >= PromptMinLen /\ Len(p) <= PromptMaxLen

ValidationMessage(p) ==
    IF Len(p) < PromptMinLen
    THEN "Validation error: \"prompt\" length must be at least 10 characters long"
    ELSE "Validation error: \"prompt\" length must be less than or equal to 512 characters long"

RECURSIVE Repeat(_, _)
Repeat(str, times) ==
    IF times = 0 THEN ""
    ELSE LET half == Repeat(str, times \div 2)
         IN IF times % 2 = 1 THEN half \o half \o str ELSE half \o half

\* the prompts tried: a valid one, one too short, one too long
Prompts == {"What is the weather in Paris today?", "Hi there",
            Repeat("x", PromptMaxLen + 1)}

\* prompts at the limits of the schema: 9, 10, 512 characters
BoundaryPrompts == {"Hi there!", "Hi there!!", Repeat("x", PromptMaxLen)}

(***************************************************************************)
(* What the chat completion API may answer.                                *)
(***************************************************************************)
ToolCall(name, arguments) == [name |-> name, arguments |-> arguments]

\* tool calls a completion may carry: cataloged and uncataloged names,
\* well-formed and malformed argument texts
ToolCallPool ==
    { ToolCall("getWeather", "{\"city\":\"Paris\"}"),
      ToolCall("getPopulation", "{ \"city\" : \"Bogota\" }"),
      ToolCall("searchProduct", "{\"search\":\"shirt\"}"),
      ToolCall("convertCurrencies",
               "{\"currency\":\"EUR\",\"value\":100,\"baseCurrency\":\"USD\"}"),
      ToolCall("sendEmail", "{\"city\":\"Paris\"}"),
      ToolCall("getWeather", "{\"city\":"),
      ToolCall("searchProduct", "{search:shirt}"),
      ToolCall("convertCurrencies", "null"),
      ToolCall("searchProduct", "{}") }

SeqsUpTo(S, n) == UNION {[1..m -> S] : m \in 0..n}

Rejected(message) ==
    [kind |-> "reject", errmsg |-> message, content |-> JsUndef,
     hasToolCalls |-> FALSE, tool_calls |-> <<>>]

\* choices[0].message of a resolved completion; hasToolCalls = FALSE is a
\* message without the tool_calls property
Resolved(content, hasToolCalls, toolCalls) ==
    [kind |-> "resolve", errmsg |-> "", content |-> content,
     hasToolCalls |-> hasToolCalls, tool_calls |-> toolCalls]

DirectContents == {JsStr("Hello! How can I help you?"), JsNull}

FirstResponses ==
    {Rejected("Connection error.")}
    \cup {Resolved(c, FALSE, <<>>) : c \in DirectContents}
    \cup {Resolved(JsNull, TRUE, tcs) : tcs \in SeqsUpTo(ToolCallPool, MaxToolCalls)}

SecondResponses ==
    { Rejected("Request timed out."),
      Resolved(JsStr("It is sunny in Paris."), FALSE, <<>>),
      Resolved(JsNull, TRUE, <<ToolCall("getWeather", "{\"city\":\"Paris\"}")>>) }

\* `if (message.tool_calls)`: an array, empty or not, is truthy
HasToolCalls(r) == r.hasToolCalls

\* tool_calls[tool_calls.length - 1]
LastToolCallIndex(toolCalls) == Len(toolCalls)

\* tool_calls[0]
ToolCallIndex(toolCalls) == 1

\* the message of the SyntaxError JSON.parse throws
SyntaxErrorMessage == "Unexpected token in JSON"

\* the message of the TypeError of reading a property of undefined or null
TypeErrorMessage(v, key) ==
    "Cannot read properties of " \o JsToStr(v) \o " (reading '" \o key \o "')"

(***************************************************************************)
(* AiService (src/src/ai/ai.service.ts).                                   *)
(***************************************************************************)
Message(role, name, content) == [role |-> role, name |-> name, content |-> content]

\* a seed with the user message ahead of the system preamble
createMessageUserFirst(p) ==
    << Message("user", "", p),
       Message("system", "", "You are a helpful assistant.") >>

\* AiService.createMessage
createMessage(p) ==
    << Message("system", "", "You are a helpful assistant."),
       Message("user", "", p) >>

\* a catalog without getPopulation
toolsWeatherOnly == <<"getWeather">>

\* AiService.toolsAi: the names of the catalog, in order
toolsAi == <<"getWeather", "getPopulation">>

\* tool messages named after the handler that produced them
createMessageByHandler(name, weather, population) ==
    << Message("function", "getPopulation",
               "The population of " \o JsToStr(Get(population, "city"))),
       Message("function", "getWeather",
               "The weather in " \o JsToStr(Get(weather, "city"))) >>

\* tool messages when the handlers had written to the conversation
\* themselves: a note of each handler next to the two messages of getPrompt
createMessageWithHandlerNotes(name, weather, population) ==
    << Message("function", "getWeather", "getWeather was called"),
       Message("function", name,
               "The population of " \o JsToStr(Get(population, "city"))),
       Message("function", name,
               "The weather in " \o JsToStr(Get(weather, "city"))) >>

\* AiService.createMessageWithTool
createMessageWithTool(name, weather, population) ==
    << Message("function", name,
               "The population of " \o JsToStr(Get(population, "city"))
               \o " is " \o JsToStr(Get(population, "population"))
               \o ", only this data"),
       Message("function", name,
               "The weather in " \o JsToStr(Get(weather, "city"))
               \o " is " \o JsToStr(Get(weather, "description"))
               \o ", with a temperature of " \o JsToStr(Get(weather, "temperature"))
               \o "°C, a humidity of " \o JsToStr(Get(weather, "humidity"))
               \o "% and a wind speed of " \o JsToStr(Get(weather, "windSpeed"))
               \o "m/s") >>

\* data.a.b...: the value read along path, or the TypeError of the first
\* read of a property of undefined or null
RECURSIVE ReadPath(_, _)
ReadPath(v, path) ==
    IF path = <<>> THEN [ok |-> TRUE, val |-> v, errmsg |-> ""]
    ELSE IF ~CanRead(v)
         THEN [ok |-> FALSE, val |-> JsUndef, errmsg |-> TypeErrorMessage(v, Head(path))]
         ELSE ReadPath(Get(v, Head(path)), Tail(path))

\* the first failing read of a list of paths, if any
RECURSIVE FirstFailure(_, _)
FirstFailure(data, paths) ==
    IF paths = <<>> THEN [ok |-> TRUE, val |-> JsUndef, errmsg |-> ""]
    ELSE IF ~ReadPath(data, Head(paths)).ok THEN ReadPath(data, Head(paths))
         ELSE FirstFailure(data, Tail(paths))

\* what an HTTP collaborator may do: fetch rejects, or resolves with a
\* status (ok or not) and a JSON body
FetchRejected == [fetch |-> "reject", ok |-> FALSE, body |-> JsUndef]
FetchResolved(ok, body) == [fetch |-> "resolve", ok |-> ok, body |-> body]

WeatherBody ==
    JsObj(<< <<"name", JsStr("Paris")>>,
             <<"main", JsObj(<< <<"temp", JsNum(2150)>>, <<"humidity", JsInt(40)>> >>)>>,
             <<"weather", JsObj(<< <<"0", JsObj(<< <<"description", JsStr("clear sky")>> >>)>> >>)>>,
             <<"wind", JsObj(<< <<"speed", JsInt(3)>> >>)>> >>)

WeatherUpstreams ==
    { FetchRejected,
      FetchResolved(FALSE, JsObj(<< <<"cod", JsStr("404")>> >>)),
      FetchResolved(TRUE, JsObj(<< <<"name", JsStr("Paris")>> >>)),
      FetchResolved(TRUE, JsObj(Tail(WeatherBody.f))),
      FetchResolved(TRUE, WeatherBody) }

PopulationUpstreams ==
    { FetchRejected,
      FetchResolved(FALSE, JsObj(<<>>)),
      FetchResolved(TRUE, JsObj(<< <<"city", JsStr("Bogota")>>,
                                   <<"population", JsInt(7181000)>> >>)),
      FetchResolved(TRUE, JsObj(<< <<"city", JsStr("Paris")>>,
                                   <<"population", JsInt(2100000)>> >> \o WeatherBody.f)) }

\* AiService.getWeather, given what its upstream did
getWeather(up) ==
    LET data == up.body
        failed(message) ==
            JsObj(<< <<"ok", JsBool(FALSE)>>,
                     <<"error", JsStr("Weather API error: " \o message)>> >>)
        fields == FirstFailure(data, << <<"name">>, <<"main", "temp">>,
                                       <<"weather", "0", "description">>,
                                       <<"main", "humidity">>, <<"wind", "speed">> >>)
    IN IF up.fetch = "reject" THEN failed("fetch failed")
       ELSE IF ~up.ok THEN failed("Error fetching weather data")
       ELSE IF ~fields.ok THEN failed(fields.errmsg)
       ELSE JsObj(<< <<"ok", JsBool(TRUE)>>,
                     <<"city", ReadPath(data, <<"name">>).val>>,
                     <<"temperature", ReadPath(data, <<"main", "temp">>).val>>,
                     <<"description", ReadPath(data, <<"weather", "0", "description">>).val>>,
                     <<"humidity", ReadPath(data, <<"main", "humidity">>).val>>,
                     <<"windSpeed", ReadPath(data, <<"wind", "speed">>).val>> >>)

\* AiService.getPopulation, given what its upstream did
getPopulation(up) ==
    LET data == up.body
        failed(message) ==
            JsObj(<< <<"ok", JsBool(FALSE)>>,
                     <<"error", JsStr("Population API error: " \o message)>> >>)
        fields == FirstFailure(data, << <<"city">>, <<"population">>,
                                       <<"weather", "0", "description">>,
                                       <<"main", "temp">>, <<"main", "humidity">>,
                                       <<"wind", "speed">> >>)
    IN IF up.fetch = "reject" THEN failed("fetch failed")
       ELSE IF ~up.ok THEN failed("Error fetching population data")
       ELSE IF ~fields.ok THEN failed(fields.errmsg)
       ELSE JsObj(<< <<"city", ReadPath(data, <<"city">>).val>>,
                     <<"population", ReadPath(data, <<"population">>).val>>,
                     <<"description", ReadPath(data, <<"weather", "0", "description">>).val>>,
                     <<"temperature", ReadPath(data, <<"main", "temp">>).val>>,
                     <<"humidity", ReadPath(data, <<"main", "humidity">>).val>>,
                     <<"windSpeed", ReadPath(data, <<"wind", "speed">>).val>> >>)

\* a handler reported failure: its value carries ok: false
HandlerFailed(v) == Get(v, "ok") = JsBool(FALSE)

(***************************************************************************)
(* What the code does between the resumption of completion round 1 and the *)
(* next await or return: next = "return" with the value returned, or the   *)
(* name of the handler awaited next with the arguments of the call.        *)
(***************************************************************************)
StepReturn(v, name, args, rd) ==
    [next |-> "return", value |-> v, toolName |-> name, functionArgs |-> args,
     callArgs |-> <<>>, reads |-> rd]

StepCall(handler, callArgs, name, args, rd) ==
    [next |-> handler, value |-> JsUndef, toolName |-> name, functionArgs |-> args,
     callArgs |-> callArgs, reads |-> rd]

\* a first step that refuses a name the catalog of AiService does not hold
AiAfterFirstCataloged(r) ==
    IF r.kind = "reject" THEN StepReturn(CatchError(r.errmsg), "", JsUndef, {})
    ELSE IF ~HasToolCalls(r) \/ r.tool_calls = <<>>
         THEN StepReturn(OkResponse(r.content), "", JsUndef, {})
    ELSE LET toolCall == r.tool_calls[1]
             argument == JSONParse(toolCall.arguments)
         IN IF ~argument.ok \/ ~CanRead(argument.val)
            THEN StepReturn(CatchError(SyntaxErrorMessage), "", JsUndef, {1})
            ELSE IF toolCall.name \notin {"getWeather", "getPopulation"}
            THEN StepReturn(CatchError("unknown tool"), toolCall.name, argument.val, {1})
            ELSE StepCall("getWeather", <<Get(argument.val, "city")>>,
                          toolCall.name, argument.val, {1})

\* a dispatch that does not look at how round 1 settled
AiAfterFirstEager(r) == StepCall("getWeather", <<JsUndef>>, "", JsUndef, {})

\* AiService.getPrompt, lines 46-51 and 64-75
AiAfterFirst(r) ==
    IF r.kind = "reject" THEN StepReturn(CatchError(r.errmsg), "", JsUndef, {})
    ELSE IF ~HasToolCalls(r)
         THEN StepReturn(OkResponse(r.content), "", JsUndef, {})
    ELSE LET idx == ToolCallIndex(r.tool_calls)
         IN IF idx \notin DOMAIN r.tool_calls
            THEN StepReturn(CatchError(TypeErrorMessage(JsUndef, "function")),
                            "", JsUndef, {idx})
            ELSE LET toolCall == r.tool_calls[idx]
                     argument == JSONParse(toolCall.arguments)
                 IN IF ~argument.ok
                    THEN StepReturn(CatchError(SyntaxErrorMessage), "", JsUndef, {idx})
                    ELSE IF ~CanRead(argument.val)
                    THEN StepReturn(CatchError(TypeErrorMessage(argument.val, "city")),
                                    "", argument.val, {idx})
                    ELSE StepCall("getWeather", <<Get(argument.val, "city")>>,
                                  toolCall.name, argument.val, {idx})

(***************************************************************************)
(* ProductsService (src/src/products/products.service.ts).                 *)
(***************************************************************************)
\* ProductsService.createMessage
createMessageProducts(p) ==
    << Message("system", "", "You are a helpful assistant."),
       Message("user", "", p) >>

\* ProductsService.tools: the names of the catalog, in order
tools == <<"convertCurrencies", "searchProduct">>

\* String.prototype.toLowerCase on the letters A-Z
LowerChar(c) ==
    CASE c = "A" -> "a" [] c = "B" -> "b" [] c = "C" -> "c" [] c = "D" -> "d"
      [] c = "E" -> "e" [] c = "F" -> "f" [] c = "G" -> "g" [] c = "H" -> "h"
      [] c = "I" -> "i" [] c = "J" -> "j" [] c = "K" -> "k" [] c = "L" -> "l"
      [] c = "M" -> "m" [] c = "N" -> "n" [] c = "O" -> "o" [] c = "P" -> "p"
      [] c = "Q" -> "q" [] c = "R" -> "r" [] c = "S" -> "s" [] c = "T" -> "t"
      [] c = "U" -> "u" [] c = "V" -> "v" [] c = "W" -> "w" [] c = "X" -> "x"
      [] c = "Y" -> "y" [] c = "Z" -> "z" [] OTHER -> c

RECURSIVE toLowerCase(_)
toLowerCase(str) ==
    IF Len(str) = 0 THEN "" ELSE LowerChar(Head(str)) \o toLowerCase(Tail(str))

\* String.prototype.includes
includes(hay, needle) ==
    \E i \in 1..(Len(hay) + 1) :
        /\ i + Len(needle) - 1 <= Len(hay)
        /\ SubSeq(hay, i, i + Len(needle) - 1) = needle

\* a row of data/products_list.csv
Product(title, price, discount, type, url, created) ==
    [displayTitle |-> title, embeddingText |-> "", url |-> url, imageUrl |-> "",
     productType |-> type, discount |-> discount, price |-> price,
     variants |-> "", createDate |-> created]

\* number of a two- or four-digit field of a date, -1 when not digits
RECURSIVE DigitsToNat(_, _)
DigitsToNat(str, acc) ==
    IF Len(str) = 0 THEN acc
    ELSE IF ~IsDigit(Head(str)) THEN -1
    ELSE DigitsToNat(Tail(str), acc * 10 + DigitVal(Head(str)))

\* new Date("YYYY-MM-DD").getTime(), counted in days since 1970-01-01
\* (the comparator only uses differences); nan for any other text
getTime(date) ==
    LET y == DigitsToNat(SubSeq(date, 1, 4), 0)
        m == DigitsToNat(SubSeq(date, 6, 7), 0)
        d == DigitsToNat(SubSeq(date, 9, 10), 0)
        yy == IF m <= 2 THEN y - 1 ELSE y
        era == yy \div 400
        yoe == yy - era * 400
        mp == (m + 9) % 12
        doy == (153 * mp + 2) \div 5 + d - 1
        doe == yoe * 365 + yoe \div 4 - yoe \div 100 + doy
        wellFormed == /\ Len(date) = 10
                      /\ SubSeq(date, 5, 5) = "-" /\ SubSeq(date, 8, 8) = "-"
                      /\ y >= 0 /\ m \in 1..12 /\ d \in 1..31
    IN IF wellFormed
       THEN [nan |-> FALSE, t |-> era * 146097 + doe - 719468]
       ELSE [nan |-> TRUE, t |-> 0]

\* (a, b) => new Date(b.createDate).getTime() - new Date(a.createDate).getTime()
\* is positive: b goes before a
GoesBefore(b, a) ==
    /\ ~getTime(a.createDate).nan /\ ~getTime(b.createDate).nan
    /\ getTime(b.createDate).t - getTime(a.createDate).t > 0

\* Array.prototype.sort with that comparator: a stable insertion
RECURSIVE InsertSorted(_, _)
InsertSorted(sorted, row) ==
    IF sorted = <<>> THEN <<row>>
    ELSE IF GoesBefore(row, sorted[Len(sorted)])
         THEN Append(InsertSorted(SubSeq(sorted, 1, Len(sorted) - 1), row),
                     sorted[Len(sorted)])
         ELSE Append(sorted, row)

RECURSIVE SortByCreateDate(_)
SortByCreateDate(rows) ==
    IF rows = <<>> THEN <<>>
    ELSE InsertSorted(SortByCreateDate(SubSeq(rows, 1, Len(rows) - 1)),
                      rows[Len(rows)])

\* a test of a row that compares the letters as they are written
RowMatchesExactCase(row, search) ==
    /\ row.displayTitle # ""
    /\ includes(row.displayTitle, search)

\* the 'data' listener's test of a row
RowMatches(row, search) ==
    /\ row.displayTitle # ""
    /\ includes(toLowerCase(row.displayTitle), toLowerCase(search))

RECURSIVE FilterRows(_, _)
FilterRows(rows, search) ==
    IF rows = <<>> THEN <<>>
    ELSE IF RowMatches(Head(rows), search)
         THEN <<Head(rows)>> \o FilterRows(Tail(rows), search)
         ELSE FilterRows(Tail(rows), search)

\* a search that falls back on the whole file when nothing matches
searchProductOrEverything(rows, search) ==
    IF FilterRows(rows, search) = <<>> THEN rows
    ELSE SortByCreateDate(FilterRows(rows, search))

\* ProductsService.searchProduct on a file that was read to its end
searchProduct(rows, search) == SortByCreateDate(FilterRows(rows, search))

\* the contents data/products_list.csv may have
Catalogs ==
    { << Product("Blue Shirt", "19.99", "10", "Clothing", "https://shop/blue-shirt", "2024-01-15"),
         Product("Red Pants", "29.99", "0", "Clothing", "https://shop/red-pants", "2024-02-01"),
         Product("SHIRT Deluxe", "49.99", "5", "Clothing", "https://shop/shirt-deluxe", "2024-03-10") >>,
      << Product("Red Pants", "29.99", "0", "Clothing", "https://shop/red-pants", "2024-02-01") >> }

\* how reading the file may end: the file stream fails (no 'error' listener
\* is attached to it), the csv parser fails, or all rows were delivered
CsvOutcomes ==
    { [kind |-> "fsError", rows |-> <<>>], [kind |-> "csvError", rows |-> <<>>] }
    \cup { [kind |-> "end", rows |-> rows] : rows \in Catalogs }

Indent(n) == Repeat(" ", n)

\* the template literal of products.map
ProductSummary(product) ==
    "\n" \o Indent(24) \o "Product: " \o product.displayTitle
    \o "\n" \o Indent(24) \o "Price: " \o product.price
    \o "\n" \o Indent(24) \o "Discount: " \o product.discount
    \o "\n" \o Indent(24) \o "Type: " \o product.productType
    \o "\n" \o Indent(24) \o "URL: " \o product.url
    \o "\n" \o Indent(20)

\* products.map(...).join('\n\n')
RECURSIVE productSummaries(_)
productSummaries(found) ==
    IF found = <<>> THEN ""
    ELSE IF Len(found) = 1 THEN ProductSummary(found[1])
    ELSE ProductSummary(Head(found)) \o "\n\n" \o productSummaries(Tail(found))

SearchMessage(found) ==
    Message("function", "searchProduct",
            productSummaries(found)
            \o " check the list of products and recommend one to the user")

\* Number(str) for the strings that can occur: digits only, or empty (0)
StrToNum(str) ==
    IF DigitsToNat(str, 0) >= 0 THEN JsInt(DigitsToNat(str, 0)) ELSE JsNaN

\* a product cut to two decimal places
TimesRoundedToCents(value, rate) ==
    CASE value.k = "num" -> JsNum((value.n * rate.n) \div 100)
      [] value.k = "str" ->
            (IF StrToNum(value.s).k = "num"
             THEN JsNum((StrToNum(value.s).n * rate.n) \div 100)
             ELSE JsNaN)
      [] value.k = "null" -> JsInt(0)
      [] value.k = "bool" -> JsNum(value.n * rate.n)
      [] OTHER -> JsNaN

\* value * exchangeRate, exactly, on numbers of two decimal places (the
\* product has four): a string is converted to a number first, null is 0,
\* true is 1, undefined, NaN and objects give NaN
Times(value, rate) ==
    CASE value.k = "num" -> JsNumFine(value.n * rate.n)
      [] value.k = "str" ->
            (IF StrToNum(value.s).k = "num"
             THEN JsNumFine(StrToNum(value.s).n * rate.n)
             ELSE JsNaN)
      [] value.k = "null" -> JsInt(0)
      [] value.k = "bool" -> JsNum(value.n * rate.n)
      [] OTHER -> JsNaN

\* what the currency API may answer
CurrencyUpstreams ==
    { FetchRejected,
      FetchResolved(FALSE, JsObj(<< <<"message", JsStr("Invalid authentication credentials")>> >>)),
      FetchResolved(TRUE, JsObj(<< <<"data", JsObj(<<>>)>> >>)),
      FetchResolved(TRUE, JsObj(<< <<"data", JsObj(<< <<"EUR", JsNum(90)>> >>)>> >>)),
      FetchResolved(TRUE, JsObj(<< <<"data", JsObj(<< <<"EUR", JsNum(93)>> >>)>> >>)) }

\* ProductsService.convertCurrencies, given what its upstream did: the
\* object returned, or the InternalServerErrorException thrown
convertCurrencies(up, baseCurrency, currency, value) ==
    LET data == up.body
        quotes == Get(data, "data")
        exchangeRate == Get(quotes, JsToStr(currency))
        thrown == [ok |-> FALSE, val |-> JsUndef, errmsg |-> "Error converting currencies"]
    IN IF up.fetch = "reject" THEN thrown
       ELSE IF ~up.ok THEN thrown
       ELSE IF ~CanRead(quotes) THEN thrown
       ELSE IF ~Truthy(exchangeRate) THEN thrown
       ELSE [ok |-> TRUE,
             val |-> JsObj(<< <<"currency", currency>>, <<"value", value>>,
                              <<"convertedValue", Times(value, exchangeRate)>> >>),
             errmsg |-> ""]

\* the template literal conversionMessage
ConversionMessage(value, baseCurrency, currency, conversion) ==
    Message("function", "convertCurrencies",
            "\n" \o Indent(24) \o "Convert " \o JsToStr(value) \o " " \o JsToStr(baseCurrency)
            \o " to " \o JsToStr(currency) \o ": "
            \o JsToStr(Get(conversion, "convertedValue")) \o " " \o JsToStr(currency)
            \o "\n" \o Indent(20))

\* ProductsService.aiPrompt, lines 61-67, 97-101 and 125-136
ProductsAfterFirst(r) ==
    IF r.kind = "reject" THEN StepReturn(CatchError(r.errmsg), "", JsUndef, {})
    ELSE IF ~HasToolCalls(r)
         THEN StepReturn(OkResponse(r.content), "", JsUndef, {})
    ELSE LET idx == ToolCallIndex(r.tool_calls)
         IN IF idx \notin DOMAIN r.tool_calls
            THEN StepReturn(CatchError(TypeErrorMessage(JsUndef, "function")),
                            "", JsUndef, {idx})
            ELSE LET functionName == r.tool_calls[idx].name
                     parsed == JSONParse(r.tool_calls[idx].arguments)
                     args == parsed.val
                 IN IF ~parsed.ok
                    THEN StepReturn(CatchError(SyntaxErrorMessage), functionName,
                                    JsUndef, {idx})
                    ELSE IF functionName = "searchProduct"
                    THEN IF ~CanRead(args)
                         THEN StepReturn(CatchError(TypeErrorMessage(args, "search")),
                                         functionName, args, {idx})
                         ELSE StepCall("searchProduct", <<Get(args, "search")>>,
                                       functionName, args, {idx})
                    ELSE IF functionName = "convertCurrencies"
                    THEN IF ~CanRead(args)
                         THEN StepReturn(CatchError(TypeErrorMessage(args, "currency")),
                                         functionName, args, {idx})
                         ELSE StepCall("convertCurrencies",
                                       << Get(args, "baseCurrency"), Get(args, "currency"),
                                          Get(args, "value") >>,
                                       functionName, args, {idx})
                    \* neither branch: the function ends without a return
                    ELSE StepReturn(JsUndef, functionName, args, {idx})

(***************************************************************************)
(* The request as a state machine.                                         *)
(***************************************************************************)
Services == {"ai", "products"}

Init ==
    /\ pc = "init"
    /\ service \in Services
    /\ prompt \in Prompts \cup BoundaryPrompts
    /\ messages = <<>>
    /\ firstResponse = NoCompletion
    /\ toolName = ""
    /\ functionArgs = JsUndef
    /\ weatherResponse = JsUndef
    /\ populationResponse = JsUndef
    /\ products = <<>>
    /\ converted = JsUndef
    /\ secondResponse = NoCompletion
    /\ result = Pending
    /\ calls = <<>>
    /\ settled = <<>>
    /\ reads = {}
    /\ requests = <<>>
    /\ process = "running"
    /\ csvRows = <<>>
    /\ upstream = <<>>

\* the method returns v
Return(v) ==
    /\ pc' = "done"
    /\ result' = Returned(v)

\* AiService.getPrompt, lines 29-45: validation, seed, completion round 1
GetPrompt ==
    /\ pc = "init" /\ service = "ai"
    /\ IF ~ValidPrompt(prompt)
       THEN /\ pc' = "done"
            /\ result' = Threw(ValidationMessage(prompt))
            /\ UNCHANGED <<messages, calls>>
       ELSE /\ messages' = createMessage(prompt)
            /\ calls' = Append(calls, CompletionCall(messages', toolsAi))
            /\ pc' = "round1"
            /\ UNCHANGED result
    /\ UNCHANGED <<requests, process, csvRows, upstream>>
    /\ UNCHANGED <<service, prompt, firstResponse, toolName, functionArgs,
                   weatherResponse, populationResponse, products, converted,
                   secondResponse, settled, reads>>

\* AiService.getPrompt, lines 41-51 and 64-75: round 1 settles
FirstCompletionAi ==
    /\ pc = "round1" /\ service = "ai"
    /\ \E r \in FirstResponses :
         LET step == AiAfterFirst(r)
         IN /\ firstResponse' = r
            /\ toolName' = step.toolName
            /\ functionArgs' = step.functionArgs
            /\ reads' = step.reads
            /\ IF step.next = "return"
               THEN Return(step.value) /\ UNCHANGED calls
               ELSE /\ pc' = "getWeather"
                    /\ calls' = Append(calls, HandlerCall("getWeather", step.callArgs))
                    /\ UNCHANGED result
    /\ UNCHANGED <<requests, process, csvRows, upstream>>
    /\ UNCHANGED <<service, prompt, messages, weatherResponse, populationResponse,
                   products, converted, secondResponse, settled>>

\* AiService.getPrompt, lines 51-52: getWeather resolves, getPopulation is called
GetWeatherReturns ==
    /\ pc = "getWeather"
    /\ \E up \in WeatherUpstreams :
         /\ weatherResponse' = getWeather(up)
         /\ upstream' = Append(upstream, up)
    /\ settled' = Append(settled, Settlement("getWeather", ~HandlerFailed(weatherResponse')))
    /\ calls' = Append(calls, HandlerCall("getPopulation", <<Get(functionArgs, "city")>>))
    /\ pc' = "getPopulation"
    /\ UNCHANGED <<requests, process, csvRows>>
    /\ UNCHANGED <<service, prompt, messages, firstResponse, toolName, functionArgs,
                   populationResponse, products, converted, secondResponse, result, reads>>

\* AiService.getPrompt, lines 52-59: getPopulation resolves, the tool
\* messages are pushed, completion round 2 is issued
GetPopulationReturns ==
    /\ pc = "getPopulation"
    /\ \E up \in PopulationUpstreams :
         /\ populationResponse' = getPopulation(up)
         /\ upstream' = Append(upstream, up)
    /\ settled' = Append(settled, Settlement("getPopulation", ~HandlerFailed(populationResponse')))
    /\ messages' = messages \o createMessageWithTool(toolName, weatherResponse,
                                                     populationResponse')
    /\ calls' = Append(calls, CompletionCall(messages', <<>>))
    /\ pc' = "round2"
    /\ UNCHANGED <<requests, process, csvRows>>
    /\ UNCHANGED <<service, prompt, firstResponse, toolName, functionArgs,
                   weatherResponse, products, converted, secondResponse, result, reads>>

\* a round-2 settlement that treats a tool request in round 2 as a failure
AfterSecondStrict(r) ==
    IF r.kind = "reject" THEN CatchError(r.errmsg)
    ELSE IF r.hasToolCalls THEN CatchError("unexpected tool call")
    ELSE OkResponse(r.content)

\* the value returned once round 2 has settled (either service)
AfterSecond(r) ==
    IF r.kind = "reject" THEN CatchError(r.errmsg) ELSE OkResponse(r.content)

\* AiService.getPrompt, lines 56-63 and 70-75: round 2 settles
SecondCompletionAi ==
    /\ pc = "round2" /\ service = "ai"
    /\ \E r \in SecondResponses :
         /\ secondResponse' = r
         /\ Return(AfterSecond(r))
    /\ UNCHANGED <<requests, process, csvRows, upstream>>
    /\ UNCHANGED <<service, prompt, messages, firstResponse, toolName, functionArgs,
                   weatherResponse, populationResponse, products, converted, calls, settled, reads>>

\* ProductsService.aiPrompt, lines 44-60: validation, seed, completion round 1
AiPrompt ==
    /\ pc = "init" /\ service = "products"
    /\ IF ~ValidPrompt(prompt)
       THEN /\ pc' = "done"
            /\ result' = Threw(ValidationMessage(prompt))
            /\ UNCHANGED <<messages, calls>>
       ELSE /\ messages' = createMessageProducts(prompt)
            /\ calls' = Append(calls, CompletionCall(messages', tools))
            /\ pc' = "round1"
            /\ UNCHANGED result
    /\ UNCHANGED <<requests, process, csvRows, upstream>>
    /\ UNCHANGED <<service, prompt, firstResponse, toolName, functionArgs,
                   weatherResponse, populationResponse, products, converted,
                   secondResponse, settled, reads>>

\* ProductsService.aiPrompt, lines 55-68, 97-101, 125-136: round 1 settles
FirstCompletionProducts ==
    /\ pc = "round1" /\ service = "products"
    /\ \E r \in FirstResponses :
         LET step == ProductsAfterFirst(r)
         IN /\ firstResponse' = r
            /\ toolName' = step.toolName
            /\ functionArgs' = step.functionArgs
            /\ reads' = step.reads
            /\ IF step.next = "return"
               THEN Return(step.value) /\ UNCHANGED calls
               ELSE /\ pc' = step.next
                    /\ calls' = Append(calls, HandlerCall(step.next, step.callArgs))
                    /\ UNCHANGED result
    /\ UNCHANGED <<requests, process, csvRows, upstream>>
    /\ UNCHANGED <<service, prompt, messages, weatherResponse, populationResponse,
                   products, converted, secondResponse, settled>>

\* the 'data' listener calls _search.toLowerCase() on a row with a title:
\* a TypeError inside the listener when _search is not a string
ListenerThrows(rows, search) ==
    /\ search.k # "str"
    /\ \E i \in 1..Len(rows) : rows[i].displayTitle # ""

\* the request never returns: an error nothing listens for ended the process
Crash(message) ==
    /\ pc' = "crashed"
    /\ result' = [status |-> "uncaught", value |-> JsUndef, error |-> message]

\* ProductsService.aiPrompt, lines 68-88 with searchProduct (161-192): the
\* file was read, the summary is built, completion round 2 is issued.  An
\* exception inside the 'data' listener either reaches the parser's 'error'
\* listener or escapes the stream as an uncaught exception.
SearchProductReturns ==
    /\ pc = "searchProduct"
    /\ \E out \in CsvOutcomes, escapes \in BOOLEAN :
         LET search == Get(functionArgs, "search")
             resolves == out.kind = "end" /\ ~ListenerThrows(out.rows, search)
         IN /\ settled' = Append(settled, Settlement("searchProduct", resolves))
            /\ csvRows' = out.rows
            /\ IF out.kind = "fsError"
               THEN Crash("ENOENT: no such file or directory") /\ UNCHANGED <<products, calls>>
               ELSE IF out.kind = "csvError"
               THEN Return(CatchError("Error processing CSV file")) /\ UNCHANGED <<products, calls>>
               ELSE IF ListenerThrows(out.rows, search)
               THEN /\ IF escapes
                       THEN Crash("_search.toLowerCase is not a function")
                       ELSE Return(CatchError("Error processing CSV file"))
                    /\ UNCHANGED <<products, calls>>
               ELSE /\ products' = searchProduct(out.rows, search.s)
                    /\ calls' = Append(calls,
                           CompletionCall(Append(messages, SearchMessage(products')), <<>>))
                    /\ pc' = "round2"
                    /\ UNCHANGED result
    /\ UNCHANGED <<requests, process, upstream>>
    /\ UNCHANGED <<service, prompt, messages, firstResponse, toolName, functionArgs,
                   weatherResponse, populationResponse, converted, secondResponse, reads>>

\* ProductsService.aiPrompt, lines 101-118 with convertCurrencies (203-228):
\* the conversion settles; completion round 2 is issued, or the exception
\* convertCurrencies throws is caught by aiPrompt's catch block
ConvertCurrenciesReturns ==
    /\ pc = "convertCurrencies"
    /\ \E up \in CurrencyUpstreams :
         LET baseCurrency == Get(functionArgs, "baseCurrency")
             currency == Get(functionArgs, "currency")
             value == Get(functionArgs, "value")
             out == convertCurrencies(up, baseCurrency, currency, value)
         IN /\ settled' = Append(settled, Settlement("convertCurrencies", out.ok))
            /\ upstream' = Append(upstream, up)
            /\ IF ~out.ok
               THEN Return(CatchError(out.errmsg)) /\ UNCHANGED <<converted, calls>>
               ELSE /\ converted' = out.val
                    /\ calls' = Append(calls,
                           CompletionCall(Append(messages,
                               ConversionMessage(value, baseCurrency, currency, out.val)), <<>>))
                    /\ pc' = "round2"
                    /\ UNCHANGED result
    /\ UNCHANGED <<requests, process, csvRows>>
    /\ UNCHANGED <<service, prompt, messages, firstResponse, toolName, functionArgs,
                   weatherResponse, populationResponse, products, secondResponse, reads>>

\* ProductsService.aiPrompt, lines 78-93, 108-123 and 131-136: round 2 settles
SecondCompletionProducts ==
    /\ pc = "round2" /\ service = "products"
    /\ \E r \in SecondResponses :
         /\ secondResponse' = r
         /\ Return(AfterSecond(r))
    /\ UNCHANGED <<requests, process, csvRows, upstream>>
    /\ UNCHANGED <<service, prompt, messages, firstResponse, toolName, functionArgs,
                   weatherResponse, populationResponse, products, converted, calls, settled, reads>>

Next ==
    \/ GetPrompt
    \/ FirstCompletionAi
    \/ GetWeatherReturns
    \/ GetPopulationReturns
    \/ SecondCompletionAi
    \/ AiPrompt
    \/ FirstCompletionProducts
    \/ SearchProductReturns
    \/ ConvertCurrenciesReturns
    \/ SecondCompletionProducts

Spec == Init /\ [][Next]_vars

(***************************************************************************)
(* Two requests in one process.  Every call of getPrompt / aiPrompt has    *)
(* its own locals (messages, the responses, the parsed arguments); the     *)
(* services are singletons whose only field, configService, is never       *)
(* written.  Calls interleave at their awaits.  What the calls share is    *)
(* the Node process: an 'error' event nothing listens for, or an exception *)
(* that escapes a stream listener, ends it, and with it every call in      *)
(* flight.                                                                 *)
(***************************************************************************)
Requests == {1, 2}

\* the single-request variables, unused by concurrent requests
single == <<pc, service, prompt, messages, firstResponse, toolName, functionArgs,
            weatherResponse, populationResponse, products, converted, secondResponse,
            result, calls, settled, reads, csvRows, upstream>>

\* the locals of a call that has not started
NewRequest(svc, p) ==
    [pc |-> "init", service |-> svc, prompt |-> p, messages |-> <<>>,
     firstResponse |-> NoCompletion, toolName |-> "", functionArgs |-> JsUndef,
     weatherResponse |-> JsUndef, result |-> Pending, calls |-> <<>>]

\* inputs and outcomes offered to concurrent requests
ConcurrentPrompts == {p \in Prompts : Len(p) <= PromptMaxLen}

ConcurrentToolCalls ==
    {c \in ToolCallPool :
        /\ c.name \in {"getWeather", "searchProduct", "convertCurrencies"}
        /\ JSONParse(c.arguments).ok
        /\ JSONParse(c.arguments).val.k = "obj"}

ConcurrentFirstResponses ==
    {r \in FirstResponses :
        \/ r.kind = "reject"
        \/ ~r.hasToolCalls /\ r.content # JsNull
        \/ Len(r.tool_calls) = 1 /\ r.tool_calls[1] \in ConcurrentToolCalls}

ConcurrentWeatherUpstreams ==
    {up \in WeatherUpstreams : up.fetch = "reject" \/ ~HandlerFailed(getWeather(up))}

ConcurrentPopulationUpstreams ==
    {up \in PopulationUpstreams : up.fetch = "reject" \/ ~HandlerFailed(getPopulation(up))}

InitConcurrent ==
    /\ requests \in [Requests -> {NewRequest(svc, p) : svc \in Services,
                                                      p \in ConcurrentPrompts}]
    /\ process = "running"
    /\ pc = "unused"
    /\ service = "" /\ prompt = "" /\ messages = <<>>
    /\ firstResponse = NoCompletion /\ secondResponse = NoCompletion
    /\ toolName = "" /\ functionArgs = JsUndef
    /\ weatherResponse = JsUndef /\ populationResponse = JsUndef
    /\ products = <<>> /\ converted = JsUndef
    /\ result = Pending
    /\ calls = <<>> /\ settled = <<>> /\ reads = {}
    /\ csvRows = <<>>
    /\ upstream = <<>>

\* request i moves to q; nothing else does
Becomes(i, q) ==
    /\ requests' = [requests EXCEPT ![i] = q]
    /\ UNCHANGED process

\* a call between its first await and its return
InFlight(q) == q.pc \notin {"init", "done", "crashed"}

\* the process ends on an uncaught error raised while request i runs
ProcessExits(i, message) ==
    /\ process' = "exited"
    /\ requests' =
         [j \in Requests |->
            IF j = i \/ InFlight(requests[j])
            THEN [requests[j] EXCEPT
                    !.pc = "crashed",
                    !.result = [status |-> "uncaught", value |-> JsUndef,
                                error |-> message]]
            ELSE requests[j]]

\* getPrompt lines 29-45 / aiPrompt lines 44-60
Begin(i) ==
    LET q == requests[i]
        seed == IF q.service = "ai" THEN createMessage(q.prompt)
                ELSE createMessageProducts(q.prompt)
        catalog == IF q.service = "ai" THEN toolsAi ELSE tools
    IN /\ process = "running" /\ q.pc = "init"
       /\ IF ~ValidPrompt(q.prompt)
          THEN Becomes(i, [q EXCEPT !.pc = "done",
                                    !.result = Threw(ValidationMessage(q.prompt))])
          ELSE Becomes(i, [q EXCEPT !.pc = "round1",
                                    !.messages = seed,
                                    !.calls = Append(@, CompletionCall(seed, catalog))])
       /\ UNCHANGED single

\* getPrompt lines 41-51, 64-75 / aiPrompt lines 55-68, 97-101, 125-136
FirstCompletion(i) ==
    LET q == requests[i]
    IN /\ process = "running" /\ q.pc = "round1"
       /\ \E r \in ConcurrentFirstResponses :
            \E step \in {IF q.service = "ai" THEN AiAfterFirst(r)
                          ELSE ProductsAfterFirst(r)} :
               IF step.next = "return"
               THEN Becomes(i, [q EXCEPT !.firstResponse = r,
                                         !.toolName = step.toolName,
                                         !.functionArgs = step.functionArgs,
                                         !.pc = "done",
                                         !.result = Returned(step.value)])
               ELSE Becomes(i, [q EXCEPT !.firstResponse = r,
                                         !.toolName = step.toolName,
                                         !.functionArgs = step.functionArgs,
                                         !.pc = step.next,
                                         !.calls = Append(@, HandlerCall(step.next,
                                                                          step.callArgs))])
       /\ UNCHANGED single

\* getPrompt lines 51-52
WeatherReturns(i) ==
    LET q == requests[i]
    IN /\ process = "running" /\ q.pc = "getWeather"
       /\ \E up \in ConcurrentWeatherUpstreams :
            Becomes(i, [q EXCEPT
                          !.weatherResponse = getWeather(up),
                          !.calls = Append(@, HandlerCall("getPopulation",
                                             <<Get(q.functionArgs, "city")>>)),
                          !.pc = "getPopulation"])
       /\ UNCHANGED single

\* getPrompt lines 52-59
PopulationReturns(i) ==
    LET q == requests[i]
    IN /\ process = "running" /\ q.pc = "getPopulation"
       /\ \E up \in ConcurrentPopulationUpstreams :
            LET conversation ==
                    q.messages \o createMessageWithTool(q.toolName, q.weatherResponse,
                                                        getPopulation(up))
            IN Becomes(i, [q EXCEPT
                             !.messages = conversation,
                             !.calls = Append(@, CompletionCall(conversation, <<>>)),
                             !.pc = "round2"])
       /\ UNCHANGED single

\* aiPrompt lines 68-88 with searchProduct (161-192)
SearchReturns(i) ==
    LET q == requests[i]
        search == Get(q.functionArgs, "search")
    IN /\ process = "running" /\ q.pc = "searchProduct"
       /\ \E out \in CsvOutcomes, escapes \in BOOLEAN :
            IF out.kind = "fsError"
            THEN ProcessExits(i, "ENOENT: no such file or directory")
            ELSE IF out.kind = "csvError"
            THEN Becomes(i, [q EXCEPT
                               !.pc = "done",
                               !.result = Returned(CatchError("Error processing CSV file"))])
            ELSE IF ListenerThrows(out.rows, search)
            THEN IF escapes
                 THEN ProcessExits(i, "_search.toLowerCase is not a function")
                 ELSE Becomes(i, [q EXCEPT
                                    !.pc = "done",
                                    !.result = Returned(CatchError("Error processing CSV file"))])
            ELSE Becomes(i, [q EXCEPT
                               !.pc = "round2",
                               !.calls = Append(@, CompletionCall(
                                   Append(q.messages,
                                          SearchMessage(searchProduct(out.rows, search.s))),
                                   <<>>))])
       /\ UNCHANGED single

\* aiPrompt lines 101-118 with convertCurrencies (203-228)
ConvertReturns(i) ==
    LET q == requests[i]
        baseCurrency == Get(q.functionArgs, "baseCurrency")
        currency == Get(q.functionArgs, "currency")
        value == Get(q.functionArgs, "value")
    IN /\ process = "running" /\ q.pc = "convertCurrencies"
       /\ \E up \in CurrencyUpstreams :
            LET out == convertCurrencies(up, baseCurrency, currency, value)
            IN IF ~out.ok
               THEN Becomes(i, [q EXCEPT !.pc = "done",
                                         !.result = Returned(CatchError(out.errmsg))])
               ELSE Becomes(i, [q EXCEPT
                                  !.pc = "round2",
                                  !.calls = Append(@, CompletionCall(
                                      Append(q.messages,
                                             ConversionMessage(value, baseCurrency,
                                                               currency, out.val)),
                                      <<>>))])
       /\ UNCHANGED single

\* getPrompt lines 56-63, 70-75 / aiPrompt lines 78-93, 108-123, 131-136
SecondCompletion(i) ==
    LET q == requests[i]
    IN /\ process = "running" /\ q.pc = "round2"
       /\ \E r \in SecondResponses :
            Becomes(i, [q EXCEPT !.pc = "done", !.result = Returned(AfterSecond(r))])
       /\ UNCHANGED single

NextConcurrent ==
    \/ \E i \in Requests : Begin(i)
    \/ \E i \in Requests : FirstCompletion(i)
    \/ \E i \in Requests : WeatherReturns(i)
    \/ \E i \in Requests : PopulationReturns(i)
    \/ \E i \in Requests : SearchReturns(i)
    \/ \E i \in Requests : ConvertReturns(i)
    \/ \E i \in Requests : SecondCompletion(i)

SpecConcurrent == InitConcurrent /\ [][NextConcurrent]_vars

(***************************************************************************)
(* searchProduct alone: the file is read to its end with any rows, the     *)
(* query is any text.                                                      *)
(***************************************************************************)
\* longest file, in rows
MaxRows == 3

\* rows the file may hold: the rows of Catalogs, a row with an empty title
\* cell, and a row created the same day as another
ProductPool ==
    UNION {{c[i] : i \in DOMAIN c} : c \in Catalogs}
    \cup { Product("", "9.99", "0", "Clothing", "https://shop/untitled", "2024-02-20"),
           Product("T-shirt basic", "14.99", "0", "Clothing", "https://shop/t-shirt", "2024-01-15") }

Searches == {"shirt", "SHIRT", "Pants", "", "hat"}

InitSearch ==
    /\ csvRows \in SeqsUpTo(ProductPool, MaxRows)
    /\ functionArgs \in {JsObj(<< <<"search", JsStr(q)>> >>) : q \in Searches}
    /\ pc = "searchProduct"
    /\ service = "products" /\ prompt = "" /\ messages = <<>>
    /\ firstResponse = NoCompletion /\ secondResponse = NoCompletion
    /\ toolName = "searchProduct"
    /\ weatherResponse = JsUndef /\ populationResponse = JsUndef
    /\ products = <<>> /\ converted = JsUndef
    /\ result = Pending
    /\ calls = <<>> /\ settled = <<>> /\ reads = {}
    /\ requests = <<>> /\ process = "running"
    /\ upstream = <<>>

\* searchProduct (161-192): 'end' was emitted, the promise resolves
SearchProductResolves ==
    /\ pc = "searchProduct"
    /\ products' = searchProduct(csvRows, Get(functionArgs, "search").s)
    /\ pc' = "resolved"
    /\ UNCHANGED <<service, prompt, messages, firstResponse, toolName, functionArgs,
                   weatherResponse, populationResponse, converted, secondResponse,
                   result, calls, settled, reads, requests, process, csvRows,
                   upstream>>

NextSearch == SearchProductResolves

SpecSearch == InitSearch /\ [][NextSearch]_vars

(***************************************************************************)
(* convertCurrencies alone: any amount of two decimal places, any pair of  *)
(* currencies, any answer of the currency API.                             *)
(***************************************************************************)
\* amounts: 100, 0.5, 19.99, 0, 1, 0.01, 250 and the text "100"
ConvertValues ==
    { JsInt(100), JsNum(50), JsNum(1999), JsInt(0), JsInt(1), JsNum(1), JsInt(250),
      JsStr("100") }

ConvertCurrencyCodes == {"EUR", "COP"}

\* rates the API may quote: 0.9, 0.93, 1, 4.25, 0.01
QuotedRates == {JsNum(90), JsNum(93), JsInt(1), JsNum(425), JsNum(1)}

\* the API quotes rate for code
RateQuote(code, rate) ==
    FetchResolved(TRUE, JsObj(<< <<"data", JsObj(<< <<code, rate>> >>)>> >>))

ConvertUpstreams ==
    CurrencyUpstreams
    \cup {RateQuote(code, rate) : code \in ConvertCurrencyCodes, rate \in QuotedRates}

ConvertArgs(baseCurrency, currency, value) ==
    JsObj(<< <<"currency", JsStr(currency)>>, <<"value", value>>,
             <<"baseCurrency", JsStr(baseCurrency)>> >>)

InitConvert ==
    /\ functionArgs \in {ConvertArgs("USD", currency, value) :
                            currency \in ConvertCurrencyCodes, value \in ConvertValues}
    /\ upstream \in {<<up>> : up \in ConvertUpstreams}
    /\ pc = "convertCurrencies"
    /\ service = "products" /\ prompt = "" /\ messages = <<>>
    /\ firstResponse = NoCompletion /\ secondResponse = NoCompletion
    /\ toolName = "convertCurrencies"
    /\ weatherResponse = JsUndef /\ populationResponse = JsUndef
    /\ products = <<>> /\ converted = JsUndef
    /\ result = Pending
    /\ calls = <<>> /\ settled = <<>> /\ reads = {}
    /\ requests = <<>> /\ process = "running"
    /\ csvRows = <<>>

\* convertCurrencies (203-228): the object is returned, or the
\* InternalServerErrorException is thrown
ConvertCurrenciesSettles ==
    /\ pc = "convertCurrencies"
    /\ \E out \in {convertCurrencies(upstream[1], Get(functionArgs, "baseCurrency"),
                                     Get(functionArgs, "currency"),
                                     Get(functionArgs, "value"))} :
         IF out.ok
         THEN /\ converted' = out.val
              /\ pc' = "resolved"
              /\ UNCHANGED result
         ELSE /\ result' = Threw(out.errmsg)
              /\ pc' = "rejected"
              /\ UNCHANGED converted
    /\ UNCHANGED <<service, prompt, messages, firstResponse, toolName, functionArgs,
                   weatherResponse, populationResponse, products, secondResponse,
                   calls, settled, reads, requests, process, csvRows, upstream>>

NextConvert == ConvertCurrenciesSettles

SpecConvert == InitConvert /\ [][NextConvert]_vars

(***************************************************************************)
(* Vocabulary of the properties.                                           *)
(***************************************************************************)
IsCompletion(c) == c.op = "completion"
IsHandler(c) == c.op # "completion"

\* the completion rounds issued so far, and the handler invocations so far
CompletionRounds == SelectSeq(calls, IsCompletion)
HandlerInvocations == SelectSeq(calls, IsHandler)

HasKey(v, key) == v.k = "obj" /\ \E i \in DOMAIN v.f : v.f[i][1] = key

\* v is { ok: true, response: c }
IsOkTrue(v, c) ==
    /\ Len(v.f) = 2
    /\ Get(v, "ok") = JsBool(TRUE)
    /\ HasKey(v, "response") /\ Get(v, "response") = c

\* v is { ok: false, error: <a string> }
IsOkFalse(v) ==
    /\ Len(v.f) = 2
    /\ Get(v, "ok") = JsBool(FALSE)
    /\ Get(v, "error").k = "str"

\* the seed conversation of the request
Seed ==
    << [role |-> "system", name |-> "", content |-> "You are a helpful assistant."],
       [role |-> "user", name |-> "", content |-> prompt] >>

\* the names a service has a handler for (its catalog)
Registered(svc) ==
    IF svc = "ai" THEN {"getWeather", "getPopulation"}
    ELSE {"convertCurrencies", "searchProduct"}

\* round 1 resolved and its message lists at least n tool calls
ListsToolCalls(n) ==
    /\ firstResponse.kind = "resolve"
    /\ firstResponse.hasToolCalls
    /\ Len(firstResponse.tool_calls) >= n

FirstToolCall == firstResponse.tool_calls[1]

\* the argument texts of the pool that are not JSON
MalformedTexts == {"{\"city\":", "{search:shirt}"}

\* the values a handler may be handed when the arguments are v
ArgumentValues(v) ==
    {Get(v, key) : key \in {"city", "search", "baseCurrency", "currency", "value"}}

(***************************************************************************)
(* C1.  A round-1 completion that carries no tool calls (none at all, or   *)
(* an empty list) is answered with { ok: true, response: content }, the    *)
(* content of round 1; no handler is invoked, no second round is issued.   *)
(* The code fails this on an empty tool_calls array.                       *)
(***************************************************************************)
C1_DirectAnswer ==
    (/\ firstResponse.kind = "resolve"
     /\ (~firstResponse.hasToolCalls \/ Len(firstResponse.tool_calls) = 0))
    => /\ pc = "done"
       /\ result.status = "returned"
       /\ IsOkTrue(result.value, firstResponse.content)
       /\ Len(HandlerInvocations) = 0
       /\ Len(CompletionRounds) = 1

(***************************************************************************)
(* C2.  When round 1 requests a cataloged tool T with well-formed          *)
(* arguments, only T's handler is invoked, exactly once, with the parsed   *)
(* arguments.  AiService invokes getWeather and getPopulation whatever T.  *)
(***************************************************************************)
C2_RequestedHandlerOnly ==
    (/\ ListsToolCalls(1)
     /\ FirstToolCall.name \in Registered(service)
     /\ JSONParse(FirstToolCall.arguments).ok
     /\ JSONParse(FirstToolCall.arguments).val.k = "obj")
    => /\ \A i \in DOMAIN calls :
            IsHandler(calls[i]) =>
               /\ calls[i].op = FirstToolCall.name
               /\ \A j \in DOMAIN calls[i].args :
                    calls[i].args[j] \in
                       ArgumentValues(JSONParse(FirstToolCall.arguments).val)
       /\ Len(HandlerInvocations) <= 1
       /\ pc \in {"round2", "done"} => Len(HandlerInvocations) = 1

(***************************************************************************)
(* C3.  Every second completion round is issued on the seed conversation   *)
(* followed by exactly one tool (function-role) message.  AiService        *)
(* appends two.                                                            *)
(***************************************************************************)
C3_RoundTwoConversation ==
    \A i \in DOMAIN calls :
        (IsCompletion(calls[i]) /\ i > 1) =>
            /\ Len(calls[i].messages) = 3
            /\ SubSeq(calls[i].messages, 1, 2) = Seed
            /\ calls[i].messages[3].role = "function"

(***************************************************************************)
(* C4.  When round 1 lists two or more tool calls, only the first is read: *)
(* the name, the parsed arguments, every handler argument and the name on  *)
(* every tool message come from tool_calls[0].                             *)
(***************************************************************************)
C4_OnlyFirstToolCall ==
    ListsToolCalls(2) =>
        LET parsed == JSONParse(FirstToolCall.arguments)
        IN /\ reads = {1}
           /\ toolName \in {"", FirstToolCall.name}
           /\ functionArgs \in {JsUndef, parsed.val}
           /\ \A i \in DOMAIN calls :
                /\ IsHandler(calls[i]) =>
                     /\ parsed.ok
                     /\ \A j \in DOMAIN calls[i].args :
                          calls[i].args[j] \in ArgumentValues(parsed.val)
                /\ IsCompletion(calls[i]) =>
                     \A j \in DOMAIN calls[i].messages :
                        calls[i].messages[j].role = "function" =>
                           calls[i].messages[j].name = FirstToolCall.name

\* two different tool calls were listed and a handler ran on the first
C4_Witness ==
    /\ ListsToolCalls(2)
    /\ firstResponse.tool_calls[1] # firstResponse.tool_calls[2]
    /\ Len(HandlerInvocations) >= 1
    /\ pc = "done"

(***************************************************************************)
(* C5.  A request whose tool handler failed still issues completion round  *)
(* 2 and returns { ok: true, response: <round-2 content> }.  In            *)
(* ProductsService a failed handler aborts the request.                    *)
(***************************************************************************)
C5_HandlerFailureContinues ==
    (/\ pc = "done"
     /\ \E i \in DOMAIN settled : ~settled[i].ok)
    => /\ Len(CompletionRounds) = 2
       /\ secondResponse.kind = "resolve" =>
             /\ result.status = "returned"
             /\ IsOkTrue(result.value, secondResponse.content)

(***************************************************************************)
(* C6.  When completion round 1 fails, the method returns                  *)
(* { ok: false, error: <message> } carrying the transport's message, no    *)
(* handler was invoked and no second round was issued.                     *)
(***************************************************************************)
C6_FirstRoundFailure ==
    firstResponse.kind = "reject" =>
        /\ pc = "done"
        /\ result.status = "returned"
        /\ result.value =
             JsObj(<< <<"ok", JsBool(FALSE)>>,
                      <<"error", JsStr("Error in OpenAI API: " \o firstResponse.errmsg)>> >>)
        /\ Len(HandlerInvocations) = 0
        /\ Len(CompletionRounds) = 1

C6_Witness ==
    /\ firstResponse.kind = "reject"
    /\ firstResponse.errmsg = "Connection error."
    /\ pc = "done"

(***************************************************************************)
(* C7.  When the first tool call names a tool no handler is registered     *)
(* for, the method returns { ok: false, error }, invokes no handler and    *)
(* issues no second round.  Neither service checks the name.               *)
(***************************************************************************)
C7_UnknownToolFails ==
    (/\ ListsToolCalls(1)
     /\ FirstToolCall.name \notin Registered(service))
    => /\ pc = "done"
       /\ result.status = "returned"
       /\ IsOkFalse(result.value)
       /\ Len(HandlerInvocations) = 0
       /\ Len(CompletionRounds) = 1

(***************************************************************************)
(* C8.  When the arguments of the first tool call are not well-formed, the *)
(* method returns { ok: false, error }, invokes no handler and issues no   *)
(* second round.                                                           *)
(***************************************************************************)
C8_MalformedArguments ==
    (/\ ListsToolCalls(1)
     /\ FirstToolCall.arguments \in MalformedTexts)
    => /\ pc = "done"
       /\ result.status = "returned"
       /\ IsOkFalse(result.value)
       /\ Len(HandlerInvocations) = 0
       /\ Len(CompletionRounds) = 1

C8_Witness ==
    /\ ListsToolCalls(1)
    /\ FirstToolCall.arguments \in MalformedTexts
    /\ service = "products"
    /\ pc = "done"

(***************************************************************************)
(* C9.  On a validated prompt, a transport failure at either round, a      *)
(* parse failure or a lookup failure ends the request with the returned    *)
(* value { ok: false, error }.  A lookup failure does not (see C7).        *)
(***************************************************************************)
C9_FailuresAreReturned ==
    (/\ pc = "done"
     /\ ValidPrompt(prompt)
     /\ \/ firstResponse.kind = "reject"
        \/ secondResponse.kind = "reject"
        \/ ListsToolCalls(1) /\ ~JSONParse(FirstToolCall.arguments).ok
        \/ ListsToolCalls(1) /\ FirstToolCall.name \notin Registered(service))
    => /\ result.status = "returned"
       /\ IsOkFalse(result.value)

(***************************************************************************)
(* C10.  A request on a validated prompt that has ended returned either    *)
(* { ok: true, response } or { ok: false, error }, whatever round 1        *)
(* answered.  ProductsService returns undefined for an uncataloged tool.   *)
(***************************************************************************)
C10_ResultShape ==
    (pc = "done" /\ ValidPrompt(prompt))
    => /\ result.status = "returned"
       /\ \/ IsOkTrue(result.value, Get(result.value, "response"))
          \/ IsOkFalse(result.value)

\* the tool names of a catalog attached to a completion call
CatalogNames(c) == {c.tools[j] : j \in DOMAIN c.tools}

\* the messages of a conversation after its first two
Appended(msgs) == SubSeq(msgs, 3, Len(msgs))

(***************************************************************************)
(* C11.  Completion round 1 is issued on the seed with the full tool       *)
(* catalog of the service attached; every later completion round carries   *)
(* no catalog and the updated conversation: the seed followed by at least  *)
(* one tool message (in AiService, the conversation as it then stands).    *)
(***************************************************************************)
C11_CatalogOnRoundOneOnly ==
    /\ (pc # "init" /\ ValidPrompt(prompt)) =>
          /\ Len(calls) >= 1
          /\ IsCompletion(calls[1])
          /\ calls[1].messages = Seed
          /\ CatalogNames(calls[1]) = Registered(service)
    /\ \A i \in DOMAIN calls :
          (IsCompletion(calls[i]) /\ i > 1) =>
             /\ calls[i].tools = <<>>
             /\ Len(calls[i].messages) > Len(Seed)
             /\ SubSeq(calls[i].messages, 1, Len(Seed)) = Seed
             /\ \A j \in DOMAIN Appended(calls[i].messages) :
                   Appended(calls[i].messages)[j].role = "function"
             /\ service = "ai" => calls[i].messages = messages

\* both rounds were issued by each service
C11_Witness ==
    /\ Len(CompletionRounds) = 2
    /\ CompletionRounds[1].tools # <<>>
    /\ CompletionRounds[2].tools = <<>>
    /\ pc = "round2"

(***************************************************************************)
(* C12.  Once completion round 2 has resolved, the request is done and     *)
(* returned { ok: true, response: <round-2 content> }, whether or not the  *)
(* round-2 message requests a tool; round 2 is the last call of the        *)
(* request: no handler and no completion round follows it.                 *)
(***************************************************************************)
C12_RoundTwoIsFinal ==
    secondResponse.kind = "resolve" =>
        /\ pc = "done"
        /\ result.status = "returned"
        /\ IsOkTrue(result.value, secondResponse.content)
        /\ Len(CompletionRounds) = 2
        /\ IsCompletion(calls[Len(calls)])

\* round 2 resolved with a tool request and the request ended
C12_Witness ==
    /\ secondResponse.kind = "resolve"
    /\ secondResponse.hasToolCalls
    /\ Len(secondResponse.tool_calls) = 1
    /\ pc = "done"

(***************************************************************************)
(* C13.  The steps of a request are strictly ordered.  While round 1 is    *)
(* pending no handler has been invoked, and a handler is invoked only      *)
(* after round 1 resolved with a tool request; handlers are invoked one at *)
(* a time; while a handler is pending no second round has been issued, and *)
(* once the second round is issued every handler invocation has settled,   *)
(* in the order of the invocations.                                        *)
(***************************************************************************)
C13_StepsAreOrdered ==
    /\ pc = "round1" => Len(HandlerInvocations) = 0 /\ firstResponse.kind = "none"
    /\ Len(HandlerInvocations) > 0 =>
          /\ firstResponse.kind = "resolve"
          /\ IsCompletion(calls[1])
    /\ Len(settled) <= Len(HandlerInvocations)
    /\ Len(HandlerInvocations) <= Len(settled) + 1
    /\ Len(settled) < Len(HandlerInvocations) => Len(CompletionRounds) = 1
    /\ Len(CompletionRounds) = 2 =>
          /\ Len(HandlerInvocations) >= 1
          /\ Len(settled) = Len(HandlerInvocations)
          /\ \A i \in DOMAIN settled : settled[i].op = HandlerInvocations[i].op
          /\ IsCompletion(calls[Len(calls)])

\* AiService issued round 2 after both of its invocations had settled
C13_Witness ==
    /\ service = "ai"
    /\ pc = "round2"
    /\ Len(HandlerInvocations) = 2
    /\ Len(settled) = 2

\* no operation of the call log other than a completion appears twice
NoHandlerTwice ==
    \A i, j \in DOMAIN calls :
        (IsHandler(calls[i]) /\ IsHandler(calls[j]) /\ calls[i].op = calls[j].op) => i = j

(***************************************************************************)
(* C14.  A request issues at most two completion rounds, at most one tool  *)
(* invocation, and no call twice: at most three external calls in all, in  *)
(* the order round 1, tool invocation, round 2.  AiService issues two tool *)
(* invocations (see C2).                                                   *)
(***************************************************************************)
C14_EachCallAtMostOnce ==
    /\ Len(CompletionRounds) <= 2
    /\ NoHandlerTwice
    /\ Len(HandlerInvocations) <= 1
    /\ Len(calls) <= 3

\* the part of C14 that holds of both services: nothing is issued twice
C14_NothingRetried ==
    /\ Len(CompletionRounds) <= 2
    /\ NoHandlerTwice
    /\ Len(HandlerInvocations) <= Cardinality(Registered(service))

(***************************************************************************)
(* C15.  The tool path is entered (a tool call is read, a handler is       *)
(* invoked) only when round 1 lists at least one tool call; a round-1      *)
(* message whose tool_calls is present but empty is answered as a direct   *)
(* answer, { ok: true, response: content }.  The code enters the tool path *)
(* on the empty array and fails.                                           *)
(***************************************************************************)
C15_EmptyToolCallsIsDirectAnswer ==
    /\ (reads # {} \/ Len(HandlerInvocations) > 0) => ListsToolCalls(1)
    /\ (/\ firstResponse.kind = "resolve"
        /\ firstResponse.hasToolCalls
        /\ firstResponse.tool_calls = <<>>)
       => /\ pc = "done"
          /\ result.status = "returned"
          /\ IsOkTrue(result.value, firstResponse.content)

\* every function-role message of msgs was requested by round 1 and bears
\* the name round 1 requested
ToolMessagesRequested(msgs) ==
    \A j \in DOMAIN msgs :
        msgs[j].role = "function" =>
            /\ ListsToolCalls(1)
            /\ msgs[j].name = FirstToolCall.name

(***************************************************************************)
(* C16.  The conversation, and every conversation handed to a completion   *)
(* round, contains a function-role (tool) message only if round 1 of the   *)
(* request requested a tool, and every such message bears the name of the  *)
(* tool round 1 requested.                                                 *)
(***************************************************************************)
C16_ToolMessagesAreRequested ==
    /\ ToolMessagesRequested(messages)
    /\ \A i \in DOMAIN calls :
          IsCompletion(calls[i]) => ToolMessagesRequested(calls[i].messages)

\* AiService issued round 2 with tool messages after a getPopulation request
C16_Witness ==
    /\ service = "ai"
    /\ ListsToolCalls(1)
    /\ FirstToolCall.name = "getPopulation"
    /\ Len(CompletionRounds) = 2
    /\ \E j \in DOMAIN messages : messages[j].role = "function"

\* conversation a is a prefix of conversation b
IsPrefix(a, b) == Len(a) <= Len(b) /\ SubSeq(b, 1, Len(a)) = a

(***************************************************************************)
(* C17.  The seed is exactly [system preamble, user message(prompt)]: it   *)
(* is the conversation of round 1 and the unchanged prefix of the          *)
(* conversation from then on and of the conversation of round 2, which is  *)
(* strictly longer.  The conversation only grows at its end: every step    *)
(* leaves the messages it already held in place.                           *)
(***************************************************************************)
C17_SeedIsUnchangedPrefix ==
    /\ [](/\ messages # <<>> => IsPrefix(Seed, messages)
          /\ \A i \in DOMAIN calls :
                IsCompletion(calls[i]) =>
                   /\ IsPrefix(Seed, calls[i].messages)
                   /\ IsPrefix(calls[1].messages, calls[i].messages)
                   /\ i = 1 => calls[i].messages = Seed
                   /\ i > 1 => Len(calls[i].messages) > Len(Seed))
    /\ [][IsPrefix(messages, messages')]_vars

\* ProductsService issued round 2 on the seed plus its tool message
C17_Witness ==
    /\ service = "products"
    /\ pc = "round2"
    /\ Len(calls[Len(calls)].messages) = 3
    /\ messages = Seed

\* some function-role message of msgs quotes the error of the failed outcome v
CarriesErrorOf(msgs, v) ==
    \E j \in DOMAIN msgs :
        /\ msgs[j].role = "function"
        /\ includes(msgs[j].content, Get(v, "error").s)

(***************************************************************************)
(* C18.  When a handler of AiService reported a failure ({ ok: false,      *)
(* error }), the conversation handed to round 2 holds a tool message that  *)
(* carries that error.  createMessageWithTool never reads ok or error: it  *)
(* renders the missing fields as data ("The weather in undefined is        *)
(* undefined, ...").                                                       *)
(***************************************************************************)
C18_FailureIsExplained ==
    (service = "ai" /\ Len(CompletionRounds) = 2) =>
        LET conversation == CompletionRounds[2].messages
        IN /\ HandlerFailed(weatherResponse) =>
                 CarriesErrorOf(conversation, weatherResponse)
           /\ HandlerFailed(populationResponse) =>
                 CarriesErrorOf(conversation, populationResponse)

\* the step leaves every request but one as it was
OneRequestSteps ==
    \E i \in Requests : \A j \in Requests \ {i} : requests'[j] = requests[j]

(***************************************************************************)
(* C19.  Concurrent requests do not affect one another: every step changes *)
(* the conversation, the call log and the result of one request only, so a *)
(* request ends as it would have alone.  A request whose searchProduct     *)
(* raises an error nothing catches ends the process and every other        *)
(* request in flight with it.                                              *)
(***************************************************************************)
C19_RequestsAreIsolated == [][OneRequestSteps]_vars

\* the part of C19 that holds: while the process runs, a step of one
\* request leaves the other untouched
C19_IsolatedWhileRunning == [][process' = "running" => OneRequestSteps]_vars

\* title contains q as a substring when letter case is ignored
ContainsIgnoringCase(title, q) ==
    \E k \in 1..(Len(title) + 1) :
        /\ k + Len(q) - 1 <= Len(title)
        /\ toLowerCase(SubSeq(title, k, k + Len(q) - 1)) = toLowerCase(q)

\* how many times record x occurs in seq
Occurrences(seq, x) == Cardinality({i \in DOMAIN seq : seq[i] = x})

\* the query searchProduct was called with
Query == Get(functionArgs, "search").s

\* the result is ordered by creation timestamp, most recent first
NewestFirst ==
    \A i, j \in DOMAIN products :
        i < j => getTime(products[i].createDate).t >= getTime(products[j].createDate).t

(***************************************************************************)
(* C20, as stated.  searchProduct(q) resolves to exactly the rows whose    *)
(* title contains q ignoring letter case, each as often as the file holds  *)
(* it, most recent first.  A row with an empty title is left out even when *)
(* q is empty.                                                             *)
(***************************************************************************)
C20_ExactlyTheMatchingRows ==
    pc = "resolved" =>
        /\ \A p \in ProductPool :
              Occurrences(products, p) =
                 IF ContainsIgnoringCase(p.displayTitle, Query)
                 THEN Occurrences(csvRows, p) ELSE 0
        /\ NewestFirst

(***************************************************************************)
(* C20, amended.  searchProduct(q) resolves to exactly the rows with a     *)
(* non-empty title whose title contains q ignoring letter case, each as    *)
(* often as the file holds it, most recent first; "shirt" over [Blue       *)
(* Shirt, Red Pants, SHIRT Deluxe] gives [SHIRT Deluxe, Blue Shirt].       *)
(***************************************************************************)
C20_ExactlyTheTitledMatchingRows ==
    pc = "resolved" =>
        /\ \A p \in ProductPool :
              Occurrences(products, p) =
                 IF p.displayTitle # "" /\ ContainsIgnoringCase(p.displayTitle, Query)
                 THEN Occurrences(csvRows, p) ELSE 0
        /\ NewestFirst
        /\ (/\ Query = "shirt"
            /\ [i \in DOMAIN csvRows |-> csvRows[i].displayTitle]
                  = <<"Blue Shirt", "Red Pants", "SHIRT Deluxe">>)
           => [i \in DOMAIN products |-> products[i].displayTitle]
                  = <<"SHIRT Deluxe", "Blue Shirt">>

\* the three-row example: the later row comes first, Red Pants is left out
C20_Witness ==
    /\ pc = "resolved"
    /\ Query = "shirt"
    /\ [i \in DOMAIN csvRows |-> csvRows[i].displayTitle]
          = <<"Blue Shirt", "Red Pants", "SHIRT Deluxe">>
    /\ Len(products) = 2
    /\ products[1].displayTitle = "SHIRT Deluxe"

\* searchProduct has settled in this request, with ok as its outcome
SearchSettled(ok) ==
    \E i \in DOMAIN settled : settled[i] = Settlement("searchProduct", ok)

\* no titled row of the file contains the query, letter case ignored
ZeroMatches ==
    \A i \in DOMAIN csvRows :
        ~(/\ csvRows[i].displayTitle # ""
          /\ ContainsIgnoringCase(csvRows[i].displayTitle, Query))

(***************************************************************************)
(* C21.  A search without a match is a success.  searchProduct fails only  *)
(* when the file could not be read or the query is not a string, never for *)
(* want of a match; when no row matches it resolves to the empty list,     *)
(* the function message is still appended (its summary part empty), round  *)
(* 2 is issued on it, and a resolved round 2 is returned as                *)
(* { ok: true, response: <round-2 content> }.                              *)
(***************************************************************************)
C21_ZeroMatchesIsSuccess ==
    /\ SearchSettled(FALSE) =>
          csvRows = <<>> \/ Get(functionArgs, "search").k # "str"
    /\ (SearchSettled(TRUE) /\ ZeroMatches) =>
          /\ products = <<>>
          /\ pc \in {"round2", "done"}
          /\ Len(CompletionRounds) = 2
          /\ CompletionRounds[2].messages =
                Append(Seed,
                       [role |-> "function", name |-> "searchProduct",
                        content |-> " check the list of products and recommend one to the user"])
          /\ (pc = "done" /\ secondResponse.kind = "resolve") =>
                /\ result.status = "returned"
                /\ IsOkTrue(result.value, secondResponse.content)

\* "shirt" was searched in a file that holds Red Pants only; round 2 answered
C21_Witness ==
    /\ SearchSettled(TRUE)
    /\ Query = "shirt"
    /\ Len(csvRows) = 1
    /\ csvRows[1].displayTitle = "Red Pants"
    /\ pc = "done"
    /\ secondResponse.kind = "resolve"

\* the rate the currency API quoted for the target currency, if any
QuotedRate == Get(Get(upstream[1].body, "data"), Get(functionArgs, "currency").s)

\* the API answered with a success status and quotes a rate for the target
RateIsQuoted ==
    /\ upstream[1].fetch = "resolve" /\ upstream[1].ok
    /\ QuotedRate.k = "num" /\ QuotedRate.n > 0

\* a number, counted in ten-thousandths
InTenThousandths(v) == IF v.s = "e-4" THEN v.n ELSE v.n * 100

(***************************************************************************)
(* C22.  Whenever the currency API quotes a rate r for the target,         *)
(* convertCurrencies returns { currency, value, convertedValue } with      *)
(* currency and value as they were passed and, for a numeric value,        *)
(* convertedValue = value * r exactly, not cut to two decimal places;      *)
(* 100 at rate 0.9 gives 90.                                               *)
(***************************************************************************)
C22_ConvertedValueIsExactProduct ==
    (pc # "convertCurrencies" /\ RateIsQuoted) =>
        /\ pc = "resolved"
        /\ Len(converted.f) = 3
        /\ Get(converted, "currency") = Get(functionArgs, "currency")
        /\ Get(converted, "value") = Get(functionArgs, "value")
        /\ Get(functionArgs, "value").k = "num" =>
              /\ Get(converted, "convertedValue").k = "num"
              /\ InTenThousandths(Get(converted, "convertedValue"))
                    = Get(functionArgs, "value").n * QuotedRate.n
        /\ (Get(functionArgs, "value") = JsInt(100) /\ QuotedRate = JsNum(90)) =>
              Get(converted, "convertedValue") = JsInt(90)

\* 0.5 at rate 0.93 gave 0.465, a value of three decimal places
C22_Witness ==
    /\ pc = "resolved"
    /\ RateIsQuoted
    /\ Get(functionArgs, "value") = JsNum(50)
    /\ QuotedRate = JsNum(93)
    /\ JsToStr(Get(converted, "convertedValue")) = "0.465"

\* the currency API was unreachable or answered with a non-success status
UpstreamFailed(up) == up.fetch = "reject" \/ ~up.ok

\* the currency API answered with a success status but quotes no rate for
\* the target currency
EntityIsMissing ==
    /\ ~UpstreamFailed(upstream[1])
    /\ Get(Get(upstream[1].body, "data"), Get(functionArgs, "currency").s) = JsUndef

\* how convertCurrencies ends for the present arguments when its upstream
\* does up
OutcomeFor(up) ==
    LET out == convertCurrencies(up, Get(functionArgs, "baseCurrency"),
                                 Get(functionArgs, "currency"), Get(functionArgs, "value"))
    IN IF out.ok THEN Returned(out.val) ELSE Threw(out.errmsg)

(***************************************************************************)
(* C23.  A handler that fails because its upstream answered successfully   *)
(* without the requested entity (a target currency the API does not       *)
(* quote) ends with an error outcome different from the one it ends with   *)
(* when the upstream is unreachable or answers a non-success status.       *)
(***************************************************************************)
C23_FailureKindsAreDistinguishable ==
    (pc = "rejected" /\ EntityIsMissing) =>
        \A up \in {u \in ConvertUpstreams : UpstreamFailed(u)} : result # OutcomeFor(up)

\* the positions of a request at which a handler is running
HandlerPositions == {"getWeather", "getPopulation", "searchProduct", "convertCurrencies"}

\* conversation b is conversation a followed by n function messages
AddsToolMessages(a, b, n) ==
    /\ IsPrefix(a, b)
    /\ Len(b) = Len(a) + n
    /\ \A j \in (Len(a) + 1)..Len(b) : b[j].role = "function"

\* what a step out of a handler position does to the conversation
HandlerStepKeepsConversation ==
    pc \in HandlerPositions =>
        /\ IsPrefix(messages, messages')
        /\ (pc # "getPopulation") => messages' = messages
        /\ (pc = "getPopulation") => AddsToolMessages(messages, messages', 2)
        /\ (pc' = "round2") =>
               /\ Len(calls') = Len(calls) + 1
               /\ IsCompletion(calls'[Len(calls')])
               /\ AddsToolMessages(messages, calls'[Len(calls')].messages,
                                   IF service = "ai" THEN 2 ELSE 1)
        /\ (pc' # "round2" /\ pc # "getWeather") =>
               messages' = messages /\ calls' = calls

(***************************************************************************)
(* C24.  A step in which a handler (getWeather, getPopulation,             *)
(* searchProduct, convertCurrencies) returns or fails leaves the           *)
(* conversation as it was when the handler was invoked.  What is added     *)
(* afterwards is added by the caller: getPrompt pushes its two tool        *)
(* messages once getPopulation has returned, aiPrompt hands round 2 a copy *)
(* with one tool message and keeps its own conversation; a request that    *)
(* ends with the handler's failure ends with the conversation unchanged.   *)
(***************************************************************************)
C24_HandlersLeaveConversation == [][HandlerStepKeepsConversation]_vars

\* getWeather failed and the conversation is still the seed
C24_Witness ==
    /\ pc = "getPopulation"
    /\ HandlerFailed(weatherResponse)
    /\ messages = Seed
    /\ Len(settled) = 1

\* text s begins with text p
StartsWith(s, p) == Len(p) <= Len(s) /\ SubSeq(s, 1, Len(p)) = p

\* the fields getWeather reads of the body of the weather API
WeatherPaths ==
    << <<"name">>, <<"main", "temp">>, <<"weather", "0", "description">>,
       <<"main", "humidity">>, <<"wind", "speed">> >>

\* the body lacks a field getWeather reads
MissingField(body) ==
    \E i \in DOMAIN WeatherPaths :
        ~ReadPath(body, WeatherPaths[i]).ok \/ ReadPath(body, WeatherPaths[i]).val = JsUndef

\* reading the body raises a TypeError: an object getWeather reads into is absent
ReadRaises(body) == \E i \in DOMAIN WeatherPaths : ~ReadPath(body, WeatherPaths[i]).ok

\* v is { ok: false, error: "Weather API error: ..." }
IsWeatherFailure(v) ==
    /\ Len(v.f) = 2
    /\ Get(v, "ok") = JsBool(FALSE)
    /\ Get(v, "error").k = "str"
    /\ StartsWith(Get(v, "error").s, "Weather API error: ")

\* v is { ok: true, city, temperature, description, humidity, windSpeed }
\* with the values of the body
IsWeatherSuccess(v, body) ==
    /\ Len(v.f) = 6
    /\ Get(v, "ok") = JsBool(TRUE)
    /\ Get(v, "city") = ReadPath(body, <<"name">>).val
    /\ Get(v, "temperature") = ReadPath(body, <<"main", "temp">>).val
    /\ Get(v, "description") = ReadPath(body, <<"weather", "0", "description">>).val
    /\ Get(v, "humidity") = ReadPath(body, <<"main", "humidity">>).val
    /\ Get(v, "windSpeed") = ReadPath(body, <<"wind", "speed">>).val

\* getWeather has settled in AiService
WeatherSettled == service = "ai" /\ Len(settled) >= 1 /\ Len(upstream) >= 1

(***************************************************************************)
(* C25.  getWeather never raises.  When the fetch fails, the status is not *)
(* a success or the body lacks a field getWeather reads, it resolves to    *)
(* { ok: false, error: "Weather API error: ..." }; otherwise it resolves   *)
(* to { ok: true, city, temperature, description, humidity, windSpeed }.   *)
(* The code reports a failure only when a read raises: a body that lacks   *)
(* name (or another leaf) is answered with ok: true and undefined fields.  *)
(***************************************************************************)
C25_GetWeatherResolves ==
    WeatherSettled =>
        /\ settled[1].op = "getWeather"
        /\ result.status # "threw"
        /\ IF \/ upstream[1].fetch = "reject"
              \/ ~upstream[1].ok
              \/ MissingField(upstream[1].body)
           THEN IsWeatherFailure(weatherResponse)
           ELSE IsWeatherSuccess(weatherResponse, upstream[1].body)

\* what getWeather does keep: a failure whenever a read of the body raises,
\* the six fields read from the body otherwise
C25_FailsWhenAReadRaises ==
    WeatherSettled =>
        /\ settled[1].op = "getWeather"
        /\ result.status # "threw"
        /\ IF \/ upstream[1].fetch = "reject"
              \/ ~upstream[1].ok
              \/ ReadRaises(upstream[1].body)
           THEN IsWeatherFailure(weatherResponse)
           ELSE IsWeatherSuccess(weatherResponse, upstream[1].body)

\* the prompt is a text of 10 to 512 characters
PromptInRange == Len(prompt) >= 10 /\ Len(prompt) <= 512

(***************************************************************************)
(* C26.  A prompt that is not a text of 10 to 512 characters makes         *)
(* getPrompt and aiPrompt throw "Validation error: ..." before anything    *)
(* else happens: no completion round is issued, no handler is invoked, the *)
(* conversation is not seeded and no { ok: false } value is returned.  A   *)
(* prompt of 10 to 512 characters never ends in a validation error and     *)
(* has round 1 issued.                                                     *)
(***************************************************************************)
C26_InvalidPromptThrowsFirst ==
    /\ (pc # "init" /\ ~PromptInRange) =>
          /\ pc = "done"
          /\ result.status = "threw"
          /\ StartsWith(result.error, "Validation error: ")
          /\ result.value = JsUndef
          /\ calls = <<>> /\ settled = <<>> /\ upstream = <<>>
          /\ messages = <<>>
    /\ (pc # "init" /\ PromptInRange) =>
          /\ ~StartsWith(result.error, "Validation error: ")
          /\ Len(CompletionRounds) >= 1
          /\ calls[1].messages = Seed

\* aiPrompt threw on a prompt of 513 characters
C26_Witness ==
    /\ service = "products"
    /\ Len(prompt) = 513
    /\ pc = "done"
    /\ result.status = "threw"
    /\ calls = <<>>

\* the arguments of the first tool call, parsed
ParsedArguments == JSONParse(FirstToolCall.arguments)

\* round 1 of AiService has settled with a tool request whose arguments parse
ToolRequestedOfAi ==
    /\ service = "ai"
    /\ ListsToolCalls(1)
    /\ ParsedArguments.ok

\* getWeather, then getPopulation, once each, on the city of the parsed
\* arguments; round 2 follows whatever the two reported
WeatherThenPopulation ==
    LET city == Get(ParsedArguments.val, "city")
    IN /\ pc \in {"getWeather", "getPopulation", "round2", "done"}
       /\ Len(HandlerInvocations) \in 1..2
       /\ HandlerInvocations[1] = HandlerCall("getWeather", <<city>>)
       /\ pc = "getWeather" => Len(HandlerInvocations) = 1 /\ settled = <<>>
       /\ pc # "getWeather" =>
             /\ Len(HandlerInvocations) = 2
             /\ HandlerInvocations[2] = HandlerCall("getPopulation", <<city>>)
             /\ settled[1].op = "getWeather"
       /\ pc = "getPopulation" => Len(settled) = 1 /\ Len(CompletionRounds) = 1
       /\ pc \in {"round2", "done"} =>
             /\ Len(settled) = 2 /\ settled[2].op = "getPopulation"
             /\ Len(CompletionRounds) = 2
             /\ IsCompletion(calls[Len(calls)])

ReturnedNotOk == result.status = "returned" /\ Get(result.value, "ok") = JsBool(FALSE)

ErrorPrefix == "Error in OpenAI API: "

\* the text after the prefix
AfterPrefix(text) == SubSeq(text, Len(ErrorPrefix) + 1, Len(text))

\* the handler invoked last ended in an exception
HandlerRaised == Len(settled) >= 1 /\ ~settled[Len(settled)].ok /\ service = "products"

\* the message of the error the catch block caught, by the origin of the
\* failure: round 1, round 2, a handler's exception, or reading the tool
\* call and its arguments
IsCaughtMessage(message) ==
    IF firstResponse.kind = "reject" THEN message = firstResponse.errmsg
    ELSE IF secondResponse.kind = "reject" THEN message = secondResponse.errmsg
    ELSE IF HandlerRaised
    THEN message = (IF settled[Len(settled)].op = "searchProduct"
                    THEN "Error processing CSV file"
                    ELSE "Error converting currencies")
    ELSE /\ firstResponse.kind = "resolve" /\ firstResponse.hasToolCalls
         /\ secondResponse.kind = "none"
         /\ Len(CompletionRounds) = 1
         /\ \/ message = SyntaxErrorMessage
            \/ StartsWith(message, "Cannot read properties of ")

(***************************************************************************)
(* C28.  Every value with ok: false that getPrompt or aiPrompt returns is  *)
(* { ok: false, error: "Error in OpenAI API: " + message }, message being  *)
(* the message of the error that was caught, whether it came from round 1, *)
(* from reading the tool call's arguments, from a handler's exception or   *)
(* from round 2.                                                           *)
(***************************************************************************)
C28_EveryFailureBearsThePrefix ==
    ReturnedNotOk =>
        /\ pc = "done"
        /\ Len(result.value.f) = 2
        /\ Get(result.value, "error").k = "str"
        /\ StartsWith(Get(result.value, "error").s, ErrorPrefix)
        /\ IsCaughtMessage(AfterPrefix(Get(result.value, "error").s))

\* aiPrompt returned the failure of convertCurrencies
C28_Witness ==
    /\ ReturnedNotOk
    /\ HandlerRaised
    /\ settled[Len(settled)].op = "convertCurrencies"
    /\ Get(result.value, "error") = JsStr("Error in OpenAI API: Error converting currencies")

====
